---- MODULE Spec2Model ----
(***************************************************************************)
(* State-machine model of the TypeScript AST inspector extension.          *)
(*                                                                         *)
(* Two variants of the extension exist: src/src/extension.ts re-parses the *)
(* whole document on every change notification ("full"), and               *)
(* src/unnamed/part_000 hands the edits to ASTProvider.update              *)
(* ("incremental").  The two files are otherwise identical; the variable   *)
(* `variant` selects which onDidChangeTextDocument handler runs.           *)
(*                                                                         *)
(* The host editor (documents, editors, the tree view, decorations) and    *)
(* the compiler library (createSourceFile, SourceFile.update, node         *)
(* offsets, line maps) are collaborators; they are modelled by their       *)
(* documented contracts, and are taken not to throw.  A failure of the     *)
(* extension's own code (a property read on undefined behind a non-null    *)
(* assertion) aborts the handler at that point and is recorded in `threw`. *)
(***************************************************************************)
EXTENDS Integers, Sequences, FiniteSets, TLC

\* ---------------------------------------------------------------- bounds
MaxLen == 1
\* longest document text, in characters

MaxBatch == 2
\* most edits delivered in one change notification

MaxSel == 2
\* most nodes in one tree-view selection

MaxEdit == 1
\* longest replaced span and longest inserted text of one edit

\* ------------------------------------------------------------- the world
None == "none"
\* JavaScript's undefined, for an editor or a document

NoTree == [fileName |-> None, text |-> <<>>]
\* JavaScript's undefined, for a syntax tree

Editors == {"e1", "e2"}

Docs == {"d1", "d2"}

EditorDoc(e) == IF e = "e1" THEN "d1" ELSE "d2"
\* TextEditor.document: each editor shows one fixed document

Chars == {"a", "n"}
\* "a" is an identifier character, "n" a line break (trivia)

Texts == UNION {[1..k -> Chars] : k \in 0..MaxLen}

Variants == {"full", "incremental"}

Max(S) == CHOOSE x \in S : \A y \in S : y <= x

Min(S) == CHOOSE x \in S : \A y \in S : x <= y

\* ------------------------------------------------- the compiler library
createSourceFile(fileName, txt) == [fileName |-> fileName, text |-> txt]
\* a from-scratch parse: the tree is a function of file name and text

TokenEnds(txt) == {i \in 1..Len(txt) : txt[i] = "a"}

LastTokenEnd(txt) == Max(TokenEnds(txt) \cup {0})

PrevTokenEnd(txt, i) == Max({j \in TokenEnds(txt) : j < i} \cup {0})

TokenNode(txt, i) ==
  [kind |-> "Identifier", pos |-> PrevTokenEnd(txt, i), start |-> i - 1,
   end |-> i, childCount |-> 0]

SyntaxListNode(txt) ==
  [kind |-> "SyntaxList", pos |-> 0,
   start |-> IF TokenEnds(txt) = {} THEN 0 ELSE Min(TokenEnds(txt)) - 1,
   end |-> LastTokenEnd(txt), childCount |-> Cardinality(TokenEnds(txt))]

EndOfFileNode(txt) ==
  [kind |-> "EndOfFileToken", pos |-> LastTokenEnd(txt), start |-> Len(txt),
   end |-> Len(txt), childCount |-> 0]

NodesOf(sf) ==
  IF sf = NoTree THEN {}
  ELSE {SyntaxListNode(sf.text), EndOfFileNode(sf.text)}
         \cup {TokenNode(sf.text, i) : i \in TokenEnds(sf.text)}
\* every node the tree view can show for the tree sf (none without a tree)

getLineAndCharacterOfPosition(sf, offset) ==
  LET breaks == {i \in 1..offset : i <= Len(sf.text) /\ sf.text[i] = "n"}
  IN  [line |-> Cardinality(breaks), character |-> offset - Max(breaks \cup {0})]

offsetToPosition(sf, offset) == getLineAndCharacterOfPosition(sf, offset)

nodeToRange(sf, node) ==
  [start |-> offsetToPosition(sf, node.start), end |-> offsetToPosition(sf, node.end)]

\* ----------------------------------------------------------- tree items
NoNode == [kind |-> None, pos |-> 0, start |-> 0, end |-> 0, childCount |-> 0]
\* getChildren called without a node

getChildren(sf, node) ==
  IF sf = NoTree THEN {}
  ELSE IF node = NoNode THEN {SyntaxListNode(sf.text), EndOfFileNode(sf.text)}
  ELSE IF node.kind = "SyntaxList" THEN {TokenNode(sf.text, i) : i \in TokenEnds(sf.text)}
  ELSE {}

showNode(node) == [kind |-> node.kind, pos |-> node.pos, end |-> node.end]
\* the label `${kind}(${node.pos}..${node.end})`, as its three parts

showDescription(sf, node) ==
  IF node.kind = "Identifier"
  THEN [shown |-> TRUE, text |-> SubSeq(sf.text, node.start + 1, node.end)]
  ELSE [shown |-> FALSE, text |-> <<>>]
\* node.getText(sourceFile) for an identifier, false for any other node

collapsibleStateForNodeInverted(sf, node) ==
  IF node.childCount > 0 THEN "None" ELSE "Collapsed"
\* collapsibleStateForNode with the two branches exchanged

collapsibleStateForNode(sf, node) ==
  IF node.childCount > 0 THEN "Collapsed" ELSE "None"

getTreeItem(sf, node) ==
  [label |-> showNode(node),
   collapsibleState |-> collapsibleStateForNode(sf, node),
   description |-> showDescription(sf, node)]

TreeItemsOf(sf) == {[element |-> n, item |-> getTreeItem(sf, n)] : n \in NodesOf(sf)}
\* what the view shows after it has re-fetched the tree sf: every element
\* with the TreeItem the provider returned for it

\* ------------------------------------------------------ document edits
Changes(txt) ==
  {[rangeOffset |-> o, rangeLength |-> l, text |-> t] :
     o \in 0..Len(txt), l \in 0..MaxEdit,
     t \in UNION {[1..k -> Chars] : k \in 0..MaxEdit}}

ValidChange(txt, c) ==
  /\ c.rangeOffset + c.rangeLength <= Len(txt)
  /\ Len(txt) - c.rangeLength + Len(c.text) <= MaxLen
  /\ c.rangeLength + Len(c.text) > 0

Apply(txt, c) ==
  LET o == Min({c.rangeOffset, Len(txt)})
      e == Min({c.rangeOffset + c.rangeLength, Len(txt)})
  IN  SubSeq(txt, 1, o) \o c.text \o SubSeq(txt, e + 1, Len(txt))
\* the text after one edit; spans are clamped to the text they are applied to

RECURSIVE ApplyAll(_, _)
ApplyAll(txt, changes) ==
  IF changes = <<>> THEN txt
  ELSE ApplyAll(Apply(txt, Head(changes)), Tail(changes))

RECURSIVE Batches(_, _)
Batches(txt, k) ==
  IF k = 0 THEN {<<>>}
  ELSE {<<>>} \cup
       UNION {{<<c>> \o rest : rest \in Batches(Apply(txt, c), k - 1)} :
                c \in {x \in Changes(txt) : ValidChange(txt, x)}}
\* the edit sequences of at most k edits the host can deliver for text txt

\* ------------------------------------------------------------- the state
VARIABLES
  variant,                \* which onDidChangeTextDocument handler is installed
  pc,                     \* activate: "loading" (awaiting the compiler), "active",
                          \* "inert" (returned early), "rejected" (ended in an
                          \* exception), "disposed" (context torn down)
  compiler,               \* the import of the compiler: "pending", "loaded", "failed"
  errorMessages,          \* window.showErrorMessage calls made so far
  text,                   \* host: TextDocument.getText() of every document
  windowActiveTextEditor, \* host: window.activeTextEditor
  viewVisible,            \* host: view.visible
  viewSelection,          \* host: view.selection
  treeItems,              \* host: the elements the view shows, with their TreeItems
  decorations,            \* host: the ranges each editor shows for `decoration`
  visible,                \* activate's local `visible`
  activeTextEditor,       \* activate's local `activeTextEditor`
  document,               \* ASTProvider.document
  sourceFile,             \* ASTProvider.sourceFile
  lastEvent,              \* the event delivered last
  fired,                  \* onChange.fire() calls made by the last handler
  threw                   \* the last handler ended in an exception

vars ==
  <<variant, pc, compiler, errorMessages, text, windowActiveTextEditor,
    viewVisible, viewSelection, treeItems, decorations, visible, activeTextEditor,
    document, sourceFile, lastEvent, fired, threw>>

loadVars == <<compiler, errorMessages>>

hostVars == <<text, windowActiveTextEditor, viewVisible, viewSelection, decorations>>

extVars == <<visible, activeTextEditor, document, sourceFile>>

Event(kind, handled, hadTree) ==
  [kind |-> kind, handled |-> handled, hadTree |-> hadTree]
\* kind of event; whether the extension's handler acted on it; for a text
\* change, whether a tree was held when it arrived

\* ------------------------------------------------------------ ASTProvider
\* The provider is the record [document, sourceFile, fired, threw]; txt is
\* the host's current text of every document.

Provider == [document |-> document, sourceFile |-> sourceFile, fired |-> 0, threw |-> FALSE]

parse(p, txt) ==
  IF p.document = None
  THEN [p EXCEPT !.threw = TRUE]
  ELSE [p EXCEPT !.sourceFile = createSourceFile(p.document, txt[p.document]),
                 !.fired = @ + 1]
\* this.document! is read first: without a document the call throws
\* before sourceFile is assigned and before onChange.fire()

setSourceKeepsTree(p, d, txt) ==
  LET q == [p EXCEPT !.document = d]
  IN  IF d # None THEN parse(q, txt)
      ELSE [q EXCEPT !.fired = @ + 1]
\* setSource without the assignment this.sourceFile = undefined

setSourceWithoutFire(p, d, txt) ==
  LET q == [p EXCEPT !.document = d]
  IN  IF d # None THEN parse(q, txt)
      ELSE [q EXCEPT !.sourceFile = NoTree]
\* setSource without the onChange.fire() that follows the discarded tree

setSource(p, d, txt) ==
  LET q == [p EXCEPT !.document = d]
  IN  IF d # None THEN parse(q, txt)
      ELSE [q EXCEPT !.sourceFile = NoTree, !.fired = @ + 1]

SourceFileUpdate(sf, newText, textChangeRange) == createSourceFile(sf.fileName, newText)
\* the library's SourceFile.update: returns the tree of newText, sf is not replaced

RECURSIVE updateLoop(_, _)
updateLoop(sf, changes) ==
  IF changes = <<>> THEN sf
  ELSE LET c == Head(changes)
           returned == SourceFileUpdate(sf, c.text,
                         [newLength |-> Len(c.text),
                          span |-> [length |-> c.rangeLength, start |-> c.rangeOffset]])
       IN  updateLoop(sf, Tail(changes))
\* the for loop of update: each call's result is dropped, this.sourceFile is
\* never assigned, so the provider keeps the tree it had

update(p, changes, txt) ==
  IF p.sourceFile = NoTree THEN parse(p, txt)
  ELSE [p EXCEPT !.sourceFile = updateLoop(p.sourceFile, changes), !.fired = @ + 1]

\* ------------------------------------------------------------ decorations
RangesOf(sf, nodes) == [i \in 1..Len(nodes) |-> nodeToRange(sf, nodes[i])]

clearDecorations(decs, editor) ==
  IF editor # None THEN [decs EXCEPT ![editor] = <<>>] ELSE decs

setDecorationsThrows(editor, sf, nodes) == editor # None /\ nodes # <<>> /\ sf = NoTree
\* nodeToRange(undefined, node) reads the line map of undefined

setDecorations(decs, editor, sf, nodes) ==
  IF editor # None /\ ~setDecorationsThrows(editor, sf, nodes)
  THEN [decs EXCEPT ![editor] = RangesOf(sf, nodes)]
  ELSE decs

\* ------------------------------------------------------------- tree view
Selections(sf) ==
  {s \in UNION {[1..k -> NodesOf(sf)] : k \in 0..MaxSel} :
     \A i, j \in 1..Len(s) : i # j => s[i] # s[j]}
\* what the user can select in the view showing tree sf

Retained(sel, sf) ==
  LET Shown(n) == n \in NodesOf(sf) IN SelectSeq(sel, Shown)

Refreshed(sel, sf, n) ==
  IF n = 0 THEN {sel} ELSE {<<>>, Retained(sel, sf)}
\* view.selection after the handler: a "tree changed" event makes the view
\* re-fetch its elements; a selected element survives only if the new tree
\* still has it

\* ---------------------------------------------------------------- Init
Init ==
  /\ variant \in Variants
  /\ pc = "loading"
  /\ compiler = "pending"
  /\ errorMessages = 0
  /\ text \in [Docs -> Texts]
  /\ windowActiveTextEditor \in Editors \cup {None}
  /\ viewVisible \in BOOLEAN
  /\ viewSelection = <<>>
  /\ treeItems = {}
  /\ decorations = [e \in Editors |-> <<>>]
  /\ visible = FALSE
  /\ activeTextEditor = None
  /\ document = None
  /\ sourceFile = NoTree
  /\ lastEvent = Event("none", FALSE, FALSE)
  /\ fired = 0
  /\ threw = FALSE

\* ------------------------------------------------------------- activate
ImportFailures == {"rejects"}
\* how import(tsdkPath) fails: a dynamic import reports failure by a rejected
\* promise, it never throws at the call

getCompilerInstance(v, outcome) ==
  IF outcome = "resolves" THEN [ts |-> "ts", threw |-> FALSE, messages |-> 0]
  ELSE IF outcome = "throws" /\ v = "full"
       THEN [ts |-> None, threw |-> FALSE, messages |-> 1]
       ELSE [ts |-> None, threw |-> TRUE, messages |-> 0]
\* the value of `await getCompilerInstance()`.  The promise is returned, not
\* awaited, inside the try block of extension.ts, so the catch clause only
\* sees an exception thrown by the call itself; a rejection passes through
\* to activate.  part_000 has no try block.

Activate ==
  /\ pc = "loading"
  /\ pc' = "active"
  /\ compiler' = "loaded"
  /\ errorMessages' = errorMessages + getCompilerInstance(variant, "resolves").messages
  /\ visible' = viewVisible
  /\ activeTextEditor' = windowActiveTextEditor
  /\ LET p == IF windowActiveTextEditor # None
              THEN setSource(Provider, EditorDoc(windowActiveTextEditor), text)
              ELSE Provider
     IN  /\ document' = p.document
         /\ sourceFile' = p.sourceFile
         /\ fired' = p.fired
         /\ threw' = p.threw
         /\ treeItems' = TreeItemsOf(p.sourceFile)
  /\ lastEvent' = Event("activate", TRUE, FALSE)
  /\ UNCHANGED <<variant, hostVars>>
\* the body of activate after the await: the provider and the view are
\* created, the handlers registered, and the focused editor's document loaded

CompilerLoadFails ==
  /\ pc = "loading"
  /\ \E outcome \in ImportFailures :
       LET r == getCompilerInstance(variant, outcome)
       IN  /\ pc' = IF r.threw THEN "rejected" ELSE "inert"
           /\ errorMessages' = errorMessages + r.messages
  /\ compiler' = "failed"
  /\ lastEvent' = Event("activate", FALSE, FALSE)
  /\ UNCHANGED <<variant, hostVars, treeItems, extVars, fired, threw>>
\* the import fails: activate ends at the await (or at `if (!ts) return`)
\* before the view, the decoration type or any handler is created

Dispose ==
  /\ pc = "active"
  /\ pc' = "disposed"
  /\ lastEvent' = Event("dispose", TRUE, FALSE)
  /\ viewSelection' = <<>>
  /\ treeItems' = {}
  /\ UNCHANGED <<variant, loadVars, text, windowActiveTextEditor, viewVisible,
                 decorations, extVars, fired, threw>>
\* the host disposes every entry of context.subscriptions: the view (which
\* then selects nothing and sends no further event) and the three handlers
\* registered with `disposables`; the decoration type is not among them

\* --------------------------------------------------------------- events
SubscribedBeforeResolution(handler) ==
  IF handler = "text" THEN pc \in {"loading", "active", "disposed"}
  ELSE pc \in {"loading", "active"}
\* Subscribed, had the handlers been registered before the await

Subscribed(handler) ==
  IF handler = "text" THEN pc \in {"active", "disposed"} ELSE pc = "active"
\* whether the handler is registered with the host: all four are registered
\* after the await; onDidChangeTextDocument is registered without
\* `disposables`, so the teardown does not release it

TextHandlerAppliesToAnyDocument(d) == activeTextEditor # None
\* TextHandlerApplies without the comparison of documents

TextHandlerApplies(d) == activeTextEditor # None /\ d = EditorDoc(activeTextEditor)
\* the test of the onDidChangeTextDocument handler

NextSourceKeepsDocument(editor, vis) ==
  IF editor # None /\ vis THEN EditorDoc(editor) ELSE document
\* NextSource without the else branch

NextSource(editor, vis) ==
  IF editor # None /\ vis THEN EditorDoc(editor) ELSE None
\* what the onDidChangeActiveTextEditor handler assigns to provider.source

ChangeVisibility ==
  /\ pc # "disposed"
  /\ viewVisible' = ~viewVisible
  /\ IF Subscribed("visibility")
     THEN /\ visible' = viewVisible'
          /\ IF ~viewVisible'
             THEN /\ decorations' = clearDecorations(decorations, activeTextEditor)
                  /\ threw' = FALSE
             ELSE /\ decorations' = setDecorations(decorations, activeTextEditor,
                                                   sourceFile, viewSelection)
                  /\ threw' = setDecorationsThrows(activeTextEditor, sourceFile, viewSelection)
          /\ fired' = 0
          /\ lastEvent' = Event("visibility", TRUE, FALSE)
     ELSE /\ lastEvent' = Event("visibility", FALSE, FALSE)
          /\ UNCHANGED <<visible, decorations, threw, fired>>
  /\ UNCHANGED <<variant, pc, loadVars, text, windowActiveTextEditor, viewSelection,
                 treeItems, activeTextEditor, document, sourceFile>>

ChangeSelection ==
  /\ pc = "active"
  /\ viewVisible
  /\ \E sel \in Selections(sourceFile) :
       /\ sel # viewSelection
       /\ viewSelection' = sel
       /\ decorations' = setDecorations(decorations, activeTextEditor, sourceFile, sel)
       /\ threw' = setDecorationsThrows(activeTextEditor, sourceFile, sel)
  /\ fired' = 0
  /\ lastEvent' = Event("selection", TRUE, FALSE)
  /\ UNCHANGED <<variant, pc, loadVars, text, windowActiveTextEditor, viewVisible,
                 treeItems, extVars>>

ChangeTextDocument ==
  \E d \in Docs : \E changes \in Batches(text[d], MaxBatch) \ {<<>>} :
    /\ text' = [text EXCEPT ![d] = ApplyAll(@, changes)]
    /\ IF Subscribed("text")
       THEN LET handled == TextHandlerApplies(d)
                p == IF ~handled THEN Provider
                     ELSE IF variant = "full" THEN parse(Provider, text')
                     ELSE update(Provider, changes, text')
            IN  /\ document' = p.document
                /\ sourceFile' = p.sourceFile
                /\ fired' = p.fired
                /\ threw' = p.threw
                /\ viewSelection' \in IF pc = "disposed" THEN {viewSelection}
                                     ELSE Refreshed(viewSelection, p.sourceFile, p.fired)
                /\ treeItems' = IF pc = "disposed" \/ p.fired = 0 THEN treeItems
                                ELSE TreeItemsOf(p.sourceFile)
                /\ lastEvent' = Event("text", handled, sourceFile # NoTree)
       ELSE /\ lastEvent' = Event("text", FALSE, FALSE)
            /\ UNCHANGED <<document, sourceFile, fired, threw, viewSelection, treeItems>>
    /\ UNCHANGED <<variant, pc, loadVars, windowActiveTextEditor, viewVisible,
                   decorations, visible, activeTextEditor>>

ChangeActiveTextEditor ==
  \E editor \in (Editors \cup {None}) \ {windowActiveTextEditor} :
    /\ windowActiveTextEditor' = editor
    /\ IF Subscribed("editor")
       THEN LET p == setSource(Provider, NextSource(editor, viewVisible), text)
            IN  /\ document' = p.document
                /\ sourceFile' = p.sourceFile
                /\ fired' = p.fired
                /\ threw' = p.threw
                /\ activeTextEditor' = editor
                /\ viewSelection' \in Refreshed(viewSelection, p.sourceFile, p.fired)
                /\ treeItems' = IF p.fired = 0 THEN treeItems
                                ELSE TreeItemsOf(p.sourceFile)
                /\ lastEvent' = Event("editor", TRUE, FALSE)
       ELSE /\ lastEvent' = Event("editor", FALSE, FALSE)
            /\ UNCHANGED <<document, sourceFile, fired, threw, activeTextEditor,
                           viewSelection, treeItems>>
    /\ UNCHANGED <<variant, pc, loadVars, text, viewVisible, decorations, visible>>

Next ==
  \/ Activate
  \/ CompilerLoadFails
  \/ ChangeVisibility
  \/ ChangeSelection
  \/ ChangeTextDocument
  \/ ChangeActiveTextEditor

Spec == Init /\ [][Next]_vars
\* the extension while its context is alive

NextTeardown ==
  \/ Activate
  \/ CompilerLoadFails
  \/ ChangeVisibility
  \/ ChangeTextDocument
  \/ ChangeActiveTextEditor
  \/ Dispose

SpecTeardown == Init /\ [][NextTeardown]_vars
\* the life of the extension up to and after the teardown of its context.
\* Selections in the view are left out: the view is disposed by the teardown
\* and the highlights play no part in what the surviving handler does.

TypeOK ==
  /\ variant \in Variants
  /\ pc \in {"loading", "active", "inert", "rejected", "disposed"}
  /\ compiler \in {"pending", "loaded", "failed"}
  /\ errorMessages \in 0..1
  /\ text \in [Docs -> Texts]
  /\ windowActiveTextEditor \in Editors \cup {None}
  /\ activeTextEditor \in Editors \cup {None}
  /\ document \in Docs \cup {None}
  /\ sourceFile # NoTree => sourceFile.text \in Texts
  /\ fired \in 0..1
  /\ Len(viewSelection) <= MaxSel
  /\ treeItems = IF pc = "active" THEN TreeItemsOf(sourceFile) ELSE {}

\* ---------------------------------------------------------------- claims
Active == pc = "active"

TextHandled == Active /\ lastEvent.kind = "text" /\ lastEvent.handled
\* the last event was a change notification for the active editor's document

HighlightSet == UNION {{decorations[e][i] : i \in 1..Len(decorations[e])} : e \in Editors}
\* every range some editor shows

HighlightCount == Cardinality({<<e, i>> \in Editors \X (1..MaxSel) : i <= Len(decorations[e])})
\* how many ranges the editors show, all editors together

SelectionRanges == {nodeToRange(sourceFile, viewSelection[i]) : i \in 1..Len(viewSelection)}

\* C1: the provider holds a syntax tree if and only if it holds a document.
C1_TreeIffDocument == (sourceFile # NoTree) <=> (document # None)

C1_Witness ==
  /\ TextHandled
  /\ ~threw
  /\ document # None
  /\ sourceFile # NoTree
  /\ sourceFile.text # <<>>

\* C2: the document reference is non-null only while an editor is focused
\* and the panel is visible.
C2_DocumentOnlyWhileFocusedAndVisible ==
  Active /\ document # None => windowActiveTextEditor # None /\ viewVisible

\* C3: whenever, after a handler, an editor is focused and the panel is
\* visible, the provider holds that editor's document and a tree of it.
C3_FocusedAndVisibleHasTree ==
  Active /\ windowActiveTextEditor # None /\ viewVisible
    => /\ document = EditorDoc(windowActiveTextEditor)
       /\ sourceFile # NoTree
       /\ sourceFile.fileName = document

\* C4: in the incremental variant, after update handles a batch of edits
\* against an existing tree T, the provider's tree is the from-scratch parse
\* of the text of T with the edits applied.  Stated for every batch the
\* notification can carry, from a tree T that is the parse of the document's
\* text before the batch.
C4_UpdateEqualsReparse ==
  [][\A d \in Docs : \A changes \in Batches(text[d], MaxBatch) \ {<<>>} :
       ( /\ Active
         /\ variant = "incremental"
         /\ activeTextEditor # None
         /\ d = EditorDoc(activeTextEditor)
         /\ sourceFile # NoTree
         /\ sourceFile.text = text[d]
         /\ text' = [text EXCEPT ![d] = ApplyAll(@, changes)]
         /\ lastEvent' = Event("text", TRUE, TRUE) )
       => sourceFile' = createSourceFile(sourceFile.fileName,
                                         ApplyAll(sourceFile.text, changes))]_vars

\* C5: in the incremental variant, a change notification for the active
\* editor's document handled while no tree exists falls back to a full parse
\* that succeeds: afterwards the tree is the parse of the document's text.
C5_FallbackParseSucceeds ==
  TextHandled /\ variant = "incremental" /\ ~lastEvent.hadTree
    => /\ ~threw
       /\ sourceFile = createSourceFile(EditorDoc(activeTextEditor),
                                        text[EditorDoc(activeTextEditor)])

\* C6: in the full-reparse variant, every change notification for the active
\* editor's document replaces the tree with the parse of the document's
\* current text, without failing.
C6_ReparseOnEveryChange ==
  TextHandled /\ variant = "full"
    => /\ ~threw
       /\ sourceFile # NoTree
       /\ sourceFile.text = text[EditorDoc(activeTextEditor)]

\* C7: every batch of edits for the active document signals "tree changed"
\* exactly once, whatever the size of the batch and whether or not a tree
\* existed beforehand.
C7_OneFirePerBatch == TextHandled => fired = 1

\* C8: after a visibility change to hidden has been handled, no editor
\* carries a highlight.
C8_HiddenMeansNoHighlight ==
  Active /\ lastEvent.kind = "visibility" /\ ~viewVisible
    => \A e \in Editors : decorations[e] = <<>>

\* C9: after a selection change has been handled, the highlight set the host
\* shows is exactly the ranges of the selected nodes, one per node.
C9_SelectionHighlighted ==
  Active /\ lastEvent.kind = "selection"
    => /\ HighlightSet = SelectionRanges
       /\ HighlightCount = Len(viewSelection)

\* C10: after a visibility change to visible has been handled, the highlight
\* set is exactly the ranges of the nodes of the panel's current selection.
C10_ShownHighlightsSelection ==
  Active /\ lastEvent.kind = "visibility" /\ viewVisible
    => /\ HighlightSet = SelectionRanges
       /\ HighlightCount = Len(viewSelection)

\* C11: when loading the compiler fails, exactly one error message is shown
\* and activate completes without an unhandled failure, leaving the
\* extension inert.
C11_LoadFailureReported ==
  compiler = "failed" => errorMessages = 1 /\ pc = "inert"

\* C12: after the context is torn down no event reaches the provider or
\* changes the tree or the highlights.
C12_TeardownReleasesHandlers ==
  [][pc = "disposed"
       => /\ ~lastEvent'.handled
          /\ UNCHANGED <<document, sourceFile, decorations>>]_vars

\* C13: no event is processed before the compiler has been resolved (while
\* activate awaits it nothing of the extension changes), and the resolution
\* happens once: its outcome, once known, stays.
C13_NoEventBeforeResolution ==
  [][/\ pc = "loading" /\ pc' = "loading"
          => /\ UNCHANGED <<extVars, decorations, treeItems, fired, threw>>
             /\ ~lastEvent'.handled
     /\ pc # "loading" => pc' # "loading"
     /\ compiler # "pending" => compiler' = compiler]_vars

C13_Witness ==
  /\ pc = "loading"
  /\ lastEvent.kind = "editor"
  /\ windowActiveTextEditor # None
  /\ viewVisible

\* C14: a node with no children is shown non-collapsible (None), a node with
\* at least one child collapsible (Collapsed).
C14_CollapsibleIffChildren ==
  \A r \in treeItems :
    /\ Cardinality(getChildren(sourceFile, r.element)) = 0
         => r.item.collapsibleState = "None"
    /\ Cardinality(getChildren(sourceFile, r.element)) >= 1
         => r.item.collapsibleState = "Collapsed"

C14_Witness ==
  /\ \E r \in treeItems : r.item.collapsibleState = "Collapsed"
  /\ \E r \in treeItems : r.item.collapsibleState = "None"

C16_HighlightsOnlyOnActiveEditor ==
  Active => \A e \in Editors : decorations[e] # <<>> => e = activeTextEditor

\* C17: whenever the provider holds a tree, the document it was set from is
\* the document of the editor recorded as active.
C17_TreeOfActiveEditor ==
  sourceFile # NoTree
    => /\ activeTextEditor # None
       /\ document = EditorDoc(activeTextEditor)
       /\ sourceFile.fileName = document

C17_Witness ==
  /\ Active
  /\ lastEvent.kind = "editor"
  /\ activeTextEditor = "e2"
  /\ sourceFile # NoTree
  /\ text["d1"] # text["d2"]

\* C18: a change notification for a document that is not the active
\* editor's, or one that arrives while no editor is recorded as active,
\* leaves the tree and the document reference as they were and fires no
\* "tree changed" event.
C18_OtherDocumentChangeIgnored ==
  [][\A d \in Docs :
       ( /\ Active
         /\ text'[d] # text[d]
         /\ activeTextEditor = None \/ d # EditorDoc(activeTextEditor) )
       => /\ UNCHANGED <<document, sourceFile>>
          /\ fired' = 0
          /\ ~threw']_vars

C18_Witness ==
  /\ Active
  /\ lastEvent.kind = "text"
  /\ ~lastEvent.handled
  /\ activeTextEditor # None
  /\ sourceFile # NoTree
  /\ fired = 0

====
